---- MODULE Spec2Model ----
(***************************************************************************)
(* The "AI Telephone Game" Streamlit application                           *)
(* (src/telephonedenisaSTREAMLIT.py).                                      *)
(*                                                                         *)
(* Every browser session owns one st.session_state (game_state, api_key)   *)
(* and runs the script main() once per widget event.  All sessions share   *)
(* the process environment (API_KEY), the wall clock and the directory     *)
(* telephone_game/ holding the game logs and the generated images.         *)
(*                                                                         *)
(* A file name is modelled by the whole-second timestamp it embeds:        *)
(* log t is telephone_game/game_log_<t>.txt, image t is                    *)
(* telephone_game/image_<t>.png.  The wall-clock texts written into the     *)
(* log (Start Time, Game completed at) are left out of the entries.        *)
(* Writing to the log directory is taken to succeed.  A session's widget   *)
(* events are taken up when its script run is over (pc = "idle").          *)
(***************************************************************************)
EXTENDS Integers, Sequences, FiniteSets, TLC

\* ------------------------------------------------------------ bounds
\* The slider offers 1..5 cycles; the model explores 1..MaxCycles of them.
MaxCycles == 3
\* The clock (whole seconds) runs from 0 to MaxClock.
MaxClock == 2
\* Games started, over all sessions.
MaxRuns == 2

\* Cycles per game where two sessions run side by side.
SharedCycles == 2

Sessions == {"s1", "s2"}
Solo == "s1"
Keys == {"sk"}
Prompts == {"cat"}
Descriptions == {"feline", "canine"}
SharedDescriptions == {"feline"}

\* Python's None / absent values, one per type.
Absent == "<absent>"
NoPath == -1
NoImage == <<>>
NoText == ""

VARIABLES
    API_KEY,        \* module global read from the environment
    clock,          \* int(time.time())
    log_files,      \* telephone_game/game_log_<t>.txt : t -> content (entries)
    image_files,    \* telephone_game/image_<t>.png    : t -> image saved there
    api_key,        \* st.session_state.api_key (Absent until set)
    game_state,     \* st.session_state.game_state
    pc,             \* position of the session's script run in main()
    event,          \* the widget event that started the current/last script run
    shown,          \* messages the current/last script run put on the page
    cycles,         \* main(): slider value
    cycle,          \* main(): loop variable
    initial_prompt, \* main(): text area value
    current_prompt, \* main()
    log_path,       \* main()
    image,          \* main()
    image_path,     \* main()
    image_url,      \* main()
    new_description,\* main()
    sleep_from,     \* clock value at which time.sleep(1) was entered
    calls,          \* capability calls made by the current script run, in order
    runs,           \* games started so far, over all sessions
    narration,      \* text2audio_denisa.py: one call of generate_audio_narration
    audio_files     \* output_audio/past_life_story_<t>.mp3 : the t written

vars == <<API_KEY, clock, log_files, image_files, api_key, game_state, pc,
          event, shown, cycles, cycle, initial_prompt, current_prompt,
          log_path, image, image_path, image_url, new_description,
          sleep_from, calls, runs, narration, audio_files>>

locals == <<cycles, cycle, initial_prompt, current_prompt, log_path, image,
            image_path, image_url, new_description, sleep_from, calls>>

narrator == <<narration, audio_files>>

Times == 0..MaxClock
NoFile == <<>>

\* ------------------------------------------------------------ session state
FreshGameState == [running |-> FALSE, cycles |-> <<>>, log_path |-> NoPath]

StartedGameState == [running |-> TRUE, cycles |-> <<>>, log_path |-> NoPath]

\* get_client(): a client object (TRUE) or None (FALSE)
get_client_of(session_key, env_key) ==
    LET k == IF session_key = Absent THEN env_key ELSE session_key
    IN  k # ""

get_client(s) == get_client_of(api_key[s], API_KEY)

\* the sidebar's text input: its default is API_KEY, afterwards what was typed
KeyInput(s) == IF api_key[s] = Absent THEN API_KEY ELSE api_key[s]

\* lines 146-148: a non-empty input is stored in the session
SidebarKey(s, typed) == IF typed # "" THEN typed ELSE api_key[s]

\* ------------------------------------------------------------ log entries
HeaderEntry(prompt) == [kind |-> "header", prompt |-> prompt]

CycleEntry(k, n, prompt, path, desc) ==
    [kind |-> "cycle", cycle |-> k, of |-> n, prompt |-> prompt,
     image_path |-> path, description |-> desc]

FooterEntry == [kind |-> "footer"]

\* open(path, "w") ... write: the file is created or truncated
OpenWrite(files, path, entries) == [files EXCEPT ![path] = entries]

\* open(path, "a") ... write: the entries are added at the end
OpenAppend(files, path, entries) == [files EXCEPT ![path] = @ \o entries]

\* ------------------------------------------------------------ pure steps
\* the click counts although the button is disabled
start_button_value_always(pressed, running) == pressed

\* line 198: a disabled button never reports a click
start_button_value(pressed, running) == pressed /\ ~running

\* the start branch without the test of get_client()
StartBranchNoClientTest(client, start_button, prompt) ==
    IF start_button /\ prompt # NoText THEN "run" ELSE "skip"

\* lines 201-203: which branch of the main column the script takes
StartBranch(client, start_button, prompt) ==
    IF ~client THEN "warn"
    ELSE IF start_button /\ prompt # NoText THEN "run"
    ELSE "skip"

\* range(1, cycles): the last cycle is left out
RangeHasShort(k, n) == 1 <= k /\ k < n

\* line 228: range(1, cycles + 1)
RangeHas(k, n) == 1 <= k /\ k <= n

\* no pause between two cycles
PauseAfterNever(k, n) == FALSE

\* lines 269-270: the pause between two cycles
PauseAfter(k, n) == k < n

\* lines 43-80: the tuple generate_image returns.  outcome "ok": the service
\* answered and the image was downloaded and saved under timestamp t;
\* outcome "raise": any statement of the try block raised.
generate_image(client, outcome, img, t) ==
    IF ~client THEN <<NoImage, NoPath, NoImage>>
    ELSE IF outcome = "ok" THEN <<img, t, img>>
    ELSE <<NoImage, NoPath, NoImage, NoPath>>

\* lines 66-72: the file generate_image leaves on disk
SaveImage(files, client, outcome, img, t) ==
    IF client /\ outcome = "ok" THEN [files EXCEPT ![t] = img] ELSE files

\* lines 46-48, 77-79: what generate_image puts on the page
GenerateMessages(client, outcome) ==
    IF client /\ outcome # "ok" THEN {"Error generating image"} ELSE {}

\* line 234: image, image_path, image_url = ...  (ValueError otherwise)
UnpackFits(ret) == Len(ret) = 3

\* lines 82-124: the description analyze_image returns. outcome in
\* Descriptions: the model's answer; "empty": an answer without content;
\* "raise": the request raised.
analyze_image(client, outcome) ==
    IF ~client THEN NoText
    ELSE IF outcome \in Descriptions THEN outcome
    ELSE NoText

AnalyzeMessages(client, outcome) ==
    IF client /\ outcome = "raise" THEN {"Error analyzing image"} ELSE {}

\* lines 235-238: "if not image: ... break"
AfterGenerate(img) == IF img = NoImage THEN "finish" ELSE "analyze"

\* the description goes to the log without a record being stored
AfterAnalyzeNoRecord(desc) == IF desc = NoText THEN "finish" ELSE "log"

\* a failed analysis is tried again instead of leaving the loop
AfterAnalyzeRetry(desc) == IF desc = NoText THEN "analyze" ELSE "store"

\* lines 244-247: "if not new_description: ... break"
AfterAnalyze(desc) == IF desc = NoText THEN "finish" ELSE "store"

\* the record carries a 0-based index
CycleDataZeroBased(k, prompt, img, path, desc) ==
    [cycle |-> k - 1, prompt |-> prompt, image |-> img, image_path |-> path,
     description |-> desc]

\* lines 250-256
CycleData(k, prompt, img, path, desc) ==
    [cycle |-> k, prompt |-> prompt, image |-> img, image_path |-> path,
     description |-> desc]

\* the prompt is not replaced by the description
NextPromptStale(prompt, desc) == prompt

\* line 267
NextPrompt(prompt, desc) == desc

\* line 214: the log's name embeds int(time.time())
LogPathAt(t) == t

\* line 279
Stopped(gs) == [gs EXCEPT !.running = FALSE]

\* ------------------------------------------------------------ narrator
\* src/text2audio_denisa.py, generate_audio_narration
Stories == {"pharaoh", "pirate"}
Errors == {"rejected", "timeout"}

\* line 88
preferred_voices == <<"baby", "highpitched-baby", "alloy">>

NoResponse == [voice |-> ""]
NoExc == [voice |-> "", error |-> ""]

\* the state before generate_audio_narration is called
NarrationIdle ==
    [pc |-> "idle", story |-> NoText, audio_path |-> NoPath, index |-> 0,
     response |-> NoResponse, last_exc |-> NoExc, tried |-> <<>>,
     printed |-> "", reported |-> NoExc, result |-> NoPath]

\* lines 12-17: the narrator's module-level client
narrator_client(env_key) == env_key # ""

\* the exception kept is the first one raised
LastExcFirst(last, e) == IF last = NoExc THEN e ELSE last

\* line 101: last_exc = e
LastExcAfter(last, e) == e

\* line 91: the loop goes on to the next voice, if there is one
HasVoice(i) == i <= Len(preferred_voices)

\* ------------------------------------------------------------ script runs
\* A script run starts with fresh local variables.
FreshLocals(s) ==
    /\ cycles' = [cycles EXCEPT ![s] = 0]
    /\ cycle' = [cycle EXCEPT ![s] = 0]
    /\ initial_prompt' = [initial_prompt EXCEPT ![s] = NoText]
    /\ current_prompt' = [current_prompt EXCEPT ![s] = NoText]
    /\ log_path' = [log_path EXCEPT ![s] = NoPath]
    /\ image' = [image EXCEPT ![s] = NoImage]
    /\ image_path' = [image_path EXCEPT ![s] = NoPath]
    /\ image_url' = [image_url EXCEPT ![s] = NoImage]
    /\ new_description' = [new_description EXCEPT ![s] = NoText]
    /\ sleep_from' = [sleep_from EXCEPT ![s] = 0]
    /\ calls' = [calls EXCEPT ![s] = <<>>]

Init ==
    /\ API_KEY \in Keys \cup {""}
    /\ clock = 0
    /\ log_files = [t \in Times |-> NoFile]
    /\ image_files = [t \in Times |-> NoImage]
    /\ api_key = [s \in Sessions |-> Absent]
    /\ game_state = [s \in Sessions |-> FreshGameState]
    /\ pc = [s \in Sessions |-> "idle"]
    /\ event = [s \in Sessions |-> "none"]
    /\ shown = [s \in Sessions |-> {}]
    /\ cycles = [s \in Sessions |-> 0]
    /\ cycle = [s \in Sessions |-> 0]
    /\ initial_prompt = [s \in Sessions |-> NoText]
    /\ current_prompt = [s \in Sessions |-> NoText]
    /\ log_path = [s \in Sessions |-> NoPath]
    /\ image = [s \in Sessions |-> NoImage]
    /\ image_path = [s \in Sessions |-> NoPath]
    /\ image_url = [s \in Sessions |-> NoImage]
    /\ new_description = [s \in Sessions |-> NoText]
    /\ sleep_from = [s \in Sessions |-> 0]
    /\ calls = [s \in Sessions |-> <<>>]
    /\ runs = 0
    /\ narration = NarrationIdle
    /\ audio_files = {}

\* time.time() moves on by a second
Tick ==
    /\ clock < MaxClock
    /\ clock' = clock + 1
    /\ UNCHANGED <<narrator, runs, API_KEY, log_files, image_files, api_key, game_state,
                   pc, event, shown>>
    /\ UNCHANGED locals

\* The user changes the sidebar's text input to a key: a script run with no
\* button pressed (lines 146-148, then 201-202 or nothing).
TypeKey(s, typed) ==
    /\ pc[s] = "idle"
    /\ typed # ""
    /\ typed # KeyInput(s)
    /\ api_key' = [api_key EXCEPT ![s] = SidebarKey(s, typed)]
    /\ event' = [event EXCEPT ![s] = "key"]
    /\ shown' = [shown EXCEPT ![s] =
            IF StartBranch(get_client_of(api_key'[s], API_KEY), FALSE, NoText) = "warn"
            THEN {"Please enter your OpenAI API key"} ELSE {}]
    /\ FreshLocals(s)
    /\ UNCHANGED <<narrator, runs, API_KEY, clock, log_files, image_files, game_state, pc>>

\* "Clear Game History" (lines 152-159); st.rerun() runs the script again
\* with no button pressed.
ClearHistory(s) ==
    /\ pc[s] = "idle"
    /\ api_key' = [api_key EXCEPT ![s] = SidebarKey(s, KeyInput(s))]
    /\ game_state' = [game_state EXCEPT ![s] = FreshGameState]
    /\ event' = [event EXCEPT ![s] = "clear"]
    /\ shown' = [shown EXCEPT ![s] =
            IF StartBranch(get_client_of(api_key'[s], API_KEY), FALSE, NoText) = "warn"
            THEN {"Please enter your OpenAI API key"} ELSE {}]
    /\ FreshLocals(s)
    /\ UNCHANGED <<narrator, runs, API_KEY, clock, log_files, image_files, pc>>

\* "Start Telephone Game" with the text area holding prompt and the slider
\* at n: lines 146-148, 198, 201-225 and the loop's entry (228).
StartGame(s, prompt, n) ==
    /\ pc[s] = "idle"
    /\ api_key' = [api_key EXCEPT ![s] = SidebarKey(s, KeyInput(s))]
    /\ event' = [event EXCEPT ![s] = "start"]
    /\ LET client == get_client_of(api_key'[s], API_KEY)
           start_button == start_button_value(TRUE, game_state[s].running)
           branch == StartBranch(client, start_button, prompt)
       IN  IF branch = "run"
           THEN /\ runs < MaxRuns
                /\ runs' = runs + 1
                /\ game_state' = [game_state EXCEPT ![s] =
                        [StartedGameState EXCEPT !.log_path = LogPathAt(clock)]]
                /\ log_files' = OpenWrite(log_files, LogPathAt(clock),
                                          <<HeaderEntry(prompt)>>)
                /\ shown' = [shown EXCEPT ![s] = {}]
                /\ cycles' = [cycles EXCEPT ![s] = n]
                /\ initial_prompt' = [initial_prompt EXCEPT ![s] = prompt]
                /\ current_prompt' = [current_prompt EXCEPT ![s] = prompt]
                /\ log_path' = [log_path EXCEPT ![s] = LogPathAt(clock)]
                /\ cycle' = [cycle EXCEPT ![s] = IF RangeHas(1, n) THEN 1 ELSE 0]
                /\ pc' = [pc EXCEPT ![s] = IF RangeHas(1, n) THEN "generate" ELSE "finish"]
                /\ image' = [image EXCEPT ![s] = NoImage]
                /\ image_path' = [image_path EXCEPT ![s] = NoPath]
                /\ image_url' = [image_url EXCEPT ![s] = NoImage]
                /\ new_description' = [new_description EXCEPT ![s] = NoText]
                /\ sleep_from' = [sleep_from EXCEPT ![s] = 0]
                /\ calls' = [calls EXCEPT ![s] = <<>>]
                /\ UNCHANGED <<narrator, API_KEY, clock, image_files>>
           ELSE /\ shown' = [shown EXCEPT ![s] =
                        IF branch = "warn"
                        THEN {"Please enter your OpenAI API key"} ELSE {}]
                /\ FreshLocals(s)
                /\ UNCHANGED <<narrator, runs, API_KEY, clock, log_files, image_files,
                               game_state, pc>>

\* lines 229-238: one call of generate_image and what main does with it
GenerateImage(s, outcome) ==
    /\ pc[s] = "generate"
    /\ LET client == get_client(s)
           img == <<s, cycle[s]>>
           ret == generate_image(client, outcome, img, clock)
       IN  /\ image_files' = SaveImage(image_files, client, outcome, img, clock)
           /\ calls' = [calls EXCEPT ![s] =
                   Append(@, [kind |-> "generate", cycle |-> cycle[s],
                              ok |-> (outcome = "ok")])]
           /\ IF UnpackFits(ret)
              THEN /\ image' = [image EXCEPT ![s] = ret[1]]
                   /\ image_path' = [image_path EXCEPT ![s] = ret[2]]
                   /\ image_url' = [image_url EXCEPT ![s] = ret[3]]
                   /\ pc' = [pc EXCEPT ![s] = AfterGenerate(ret[1])]
                   /\ shown' = [shown EXCEPT ![s] =
                           @ \cup GenerateMessages(client, outcome)
                             \cup (IF AfterGenerate(ret[1]) = "finish"
                                   THEN {"Failed to generate image"} ELSE {})]
              ELSE \* ValueError: the script run dies at line 234
                   /\ pc' = [pc EXCEPT ![s] = "idle"]
                   /\ shown' = [shown EXCEPT ![s] =
                           @ \cup GenerateMessages(client, outcome)
                             \cup {"Uncaught exception"}]
                   /\ UNCHANGED <<image, image_path, image_url>>
    /\ UNCHANGED <<narrator, runs, API_KEY, clock, log_files, api_key, game_state, event,
                   cycles, cycle, initial_prompt, current_prompt, log_path,
                   new_description, sleep_from>>

\* lines 240-247: one call of analyze_image and what main does with it
AnalyzeImage(s, outcome) ==
    /\ pc[s] = "analyze"
    /\ LET client == get_client(s)
           desc == analyze_image(client, outcome)
       IN  /\ new_description' = [new_description EXCEPT ![s] = desc]
           /\ calls' = [calls EXCEPT ![s] =
                   Append(@, [kind |-> "analyze", cycle |-> cycle[s],
                              ok |-> (outcome \in Descriptions)])]
           /\ pc' = [pc EXCEPT ![s] = AfterAnalyze(desc)]
           /\ shown' = [shown EXCEPT ![s] =
                   @ \cup AnalyzeMessages(client, outcome)
                     \cup (IF AfterAnalyze(desc) = "finish"
                           THEN {"Failed to analyze image"} ELSE {})]
    /\ UNCHANGED <<narrator, runs, API_KEY, clock, log_files, image_files, api_key,
                   game_state, event, cycles, cycle, initial_prompt,
                   current_prompt, log_path, image, image_path, image_url,
                   sleep_from>>

\* lines 249-257: the cycle's record joins the session
StoreCycle(s) ==
    /\ pc[s] = "store"
    /\ game_state' = [game_state EXCEPT ![s].cycles =
            Append(@, CycleData(cycle[s], current_prompt[s], image[s],
                                image_path[s], new_description[s]))]
    /\ pc' = [pc EXCEPT ![s] = "log"]
    /\ UNCHANGED <<narrator, runs, API_KEY, clock, log_files, image_files, api_key, event,
                   shown>>
    /\ UNCHANGED locals

\* the loop's next iteration, or its end (line 228)
LoopStep(s) ==
    IF RangeHas(cycle[s] + 1, cycles[s])
    THEN /\ cycle' = [cycle EXCEPT ![s] = @ + 1]
         /\ pc' = [pc EXCEPT ![s] = "generate"]
    ELSE /\ pc' = [pc EXCEPT ![s] = "finish"]
         /\ UNCHANGED cycle

\* lines 259-270: the cycle's block is appended to the log, the description
\* becomes the prompt, and the pause starts if another cycle follows
LogCycle(s) ==
    /\ pc[s] = "log"
    /\ log_files' = OpenAppend(log_files, log_path[s],
            <<CycleEntry(cycle[s], cycles[s], current_prompt[s],
                         image_path[s], new_description[s])>>)
    /\ current_prompt' = [current_prompt EXCEPT ![s] =
            NextPrompt(current_prompt[s], new_description[s])]
    /\ IF PauseAfter(cycle[s], cycles[s])
       THEN /\ pc' = [pc EXCEPT ![s] = "sleep"]
            /\ sleep_from' = [sleep_from EXCEPT ![s] = clock]
            /\ UNCHANGED cycle
       ELSE /\ LoopStep(s)
            /\ UNCHANGED sleep_from
    /\ UNCHANGED <<narrator, runs, API_KEY, clock, image_files, api_key, game_state, event,
                   shown, cycles, initial_prompt, log_path, image,
                   image_path, image_url, new_description, calls>>

\* line 270: time.sleep(1) returns once a second has gone by
Wake(s) ==
    /\ pc[s] = "sleep"
    /\ clock >= sleep_from[s] + 1
    /\ LoopStep(s)
    /\ UNCHANGED <<narrator, runs, API_KEY, clock, log_files, image_files, api_key,
                   game_state, event, shown, cycles, initial_prompt,
                   current_prompt, log_path, image, image_path, image_url,
                   new_description, sleep_from, calls>>

\* lines 272-279: what follows the loop, however it was left
Finish(s) ==
    /\ pc[s] = "finish"
    /\ shown' = [shown EXCEPT ![s] = @ \cup {"Game completed!"}]
    /\ log_files' = OpenAppend(log_files, log_path[s], <<FooterEntry>>)
    /\ game_state' = [game_state EXCEPT ![s] = Stopped(@)]
    /\ pc' = [pc EXCEPT ![s] = "idle"]
    /\ UNCHANGED <<narrator, runs, API_KEY, clock, image_files, api_key, event>>
    /\ UNCHANGED locals

\* lines 72-90: generate_audio_narration(story) is entered
NarrationCall(story) ==
    /\ narration.pc = "idle"
    /\ narration' =
           IF ~narrator_client(API_KEY)
           THEN [NarrationIdle EXCEPT !.pc = "done", !.story = story,
                                      !.audio_path = clock,
                                      !.printed = "client not available"]
           ELSE [NarrationIdle EXCEPT !.pc = "voices", !.story = story,
                                      !.audio_path = clock, !.index = 1]
    /\ UNCHANGED <<runs, API_KEY, clock, log_files, image_files, api_key,
                   game_state, pc, event, shown, audio_files>>
    /\ UNCHANGED locals

\* lines 91-107 and 122-124: one pass of the voice loop.  outcome "ok": the
\* speech request returned a response; outcome in Errors: it raised.
TryVoice(outcome) ==
    /\ narration.pc = "voices"
    /\ LET v == preferred_voices[narration.index]
           e == [voice |-> v, error |-> outcome]
           exc == LastExcAfter(narration.last_exc, e)
           tried == Append(narration.tried, [voice |-> v, ok |-> (outcome = "ok")])
       IN  narration' =
               IF outcome = "ok"
               THEN [narration EXCEPT !.response = [voice |-> v],
                                      !.tried = tried, !.pc = "save"]
               ELSE IF HasVoice(narration.index + 1)
               THEN [narration EXCEPT !.response = NoResponse,
                                      !.last_exc = exc, !.tried = tried,
                                      !.index = @ + 1]
               ELSE [narration EXCEPT !.response = NoResponse,
                                      !.last_exc = exc, !.tried = tried,
                                      !.index = @ + 1, !.pc = "done",
                                      !.printed = "Error generating audio narration",
                                      !.reported = exc, !.result = NoPath]
    /\ UNCHANGED <<runs, API_KEY, clock, log_files, image_files, api_key,
                   game_state, pc, event, shown, audio_files>>
    /\ UNCHANGED locals

\* lines 109-124: the response is written to the file.  outcome "stream":
\* stream_to_file worked; "bytes": it raised and response.content was
\* written; "raise": it raised and there was nothing to write.
SaveAudio(outcome) ==
    /\ narration.pc = "save"
    /\ IF outcome \in {"stream", "bytes"}
       THEN /\ audio_files' = audio_files \cup {narration.audio_path}
            /\ narration' = [narration EXCEPT !.pc = "done",
                                 !.printed = "Audio narration has been generated",
                                 !.result = narration.audio_path]
       ELSE /\ audio_files' = audio_files
            /\ narration' = [narration EXCEPT !.pc = "done",
                                 !.printed = "Error generating audio narration",
                                 !.reported = [voice |-> narration.response.voice,
                                               error |-> "stream_to_file"],
                                 !.result = NoPath]
    /\ UNCHANGED <<runs, API_KEY, clock, log_files, image_files, api_key,
                   game_state, pc, event, shown>>
    /\ UNCHANGED locals

\* One browser session.
Next ==
    \/ Tick
    \/ \E typed \in Keys : TypeKey(Solo, typed)
    \/ ClearHistory(Solo)
    \/ \E prompt \in Prompts \cup {NoText}, n \in 1..MaxCycles :
           StartGame(Solo, prompt, n)
    \/ \E outcome \in {"ok", "raise"} : GenerateImage(Solo, outcome)
    \/ \E outcome \in Descriptions \cup {"empty", "raise"} :
           AnalyzeImage(Solo, outcome)
    \/ StoreCycle(Solo)
    \/ LogCycle(Solo)
    \/ Wake(Solo)
    \/ Finish(Solo)

Spec == Init /\ [][Next]_vars

\* Two browser sessions of the same server process, sharing telephone_game/.
NextShared ==
    \/ Tick
    \/ \E s \in Sessions, typed \in Keys : TypeKey(s, typed)
    \/ \E s \in Sessions : ClearHistory(s)
    \/ \E s \in Sessions, prompt \in Prompts \cup {NoText},
          n \in 1..SharedCycles :
           StartGame(s, prompt, n)
    \/ \E s \in Sessions, outcome \in {"ok", "raise"} : GenerateImage(s, outcome)
    \/ \E s \in Sessions, outcome \in SharedDescriptions \cup {"raise"} :
           AnalyzeImage(s, outcome)
    \/ \E s \in Sessions : StoreCycle(s)
    \/ \E s \in Sessions : LogCycle(s)
    \/ \E s \in Sessions : Wake(s)
    \/ \E s \in Sessions : Finish(s)

SpecShared == Init /\ [][NextShared]_vars

\* One run of the narrator script's generate_audio_narration.
NextNarration ==
    \/ Tick
    \/ \E story \in Stories : NarrationCall(story)
    \/ \E outcome \in Errors \cup {"ok"} : TryVoice(outcome)
    \/ \E outcome \in {"stream", "bytes", "raise"} : SaveAudio(outcome)

SpecNarration == Init /\ [][NextNarration]_vars

\* ------------------------------------------------------------ properties
\* the script run of session s started a game
RunStarted(s) == log_path[s] # NoPath

\* ... and that script run is over
RunEnded(s) == RunStarted(s) /\ pc[s] = "idle"

AllCallsOk(s) == \A i \in 1..Len(calls[s]) : calls[s][i].ok

LastCall(s) == calls[s][Len(calls[s])]

GenerationFailedLast(s) ==
    /\ calls[s] # <<>>
    /\ LastCall(s).kind = "generate"
    /\ ~LastCall(s).ok

AnalysisFailedLast(s) ==
    /\ calls[s] # <<>>
    /\ LastCall(s).kind = "analyze"
    /\ ~LastCall(s).ok

ReportedCompleted(s) == "Game completed!" \in shown[s]

Crashed(s) == "Uncaught exception" \in shown[s]

\* the content of the log the script run of s writes to
RunLog(s) == log_files[log_path[s]]

CycleBlocks(log) == SelectSeq(log, LAMBDA e : e.kind = "cycle")

Footers(log) == SelectSeq(log, LAMBDA e : e.kind = "footer")

Headers(log) == SelectSeq(log, LAMBDA e : e.kind = "header")

\* C1: a run of N cycles in which every generation and analysis call
\* succeeds ends with exactly N records, running False, completion reported,
\* and exactly the 2N capability calls of its N cycles.
C1_SuccessfulRunCompletes ==
    \A s \in Sessions :
        RunEnded(s) /\ AllCallsOk(s) =>
            /\ Len(game_state[s].cycles) = cycles[s]
            /\ ~game_state[s].running
            /\ ReportedCompleted(s)
            /\ ~Crashed(s)
            /\ Len(calls[s]) = 2 * cycles[s]

C1_Witness ==
    \E s \in Sessions :
        /\ RunEnded(s) /\ AllCallsOk(s)
        /\ cycles[s] = 3
        /\ Len(game_state[s].cycles) = 3

\* C2: the first record's prompt is the initial prompt, every later record's
\* prompt is the description of the record before it, and the prompt handed
\* to the generation of cycle k+1 is the description recorded for cycle k.
C2_PromptChaining ==
    \A s \in Sessions :
        LET cs == game_state[s].cycles
        IN  /\ \A i \in 2..Len(cs) : cs[i].prompt = cs[i-1].description
            /\ RunStarted(s) /\ cs # <<>> => cs[1].prompt = initial_prompt[s]
            /\ pc[s] = "generate" =>
                   current_prompt[s] = IF cycle[s] = 1 THEN initial_prompt[s]
                                       ELSE cs[cycle[s] - 1].description

C2_Witness ==
    \E s \in Sessions :
        LET cs == game_state[s].cycles
        IN  /\ Len(cs) = 3
            /\ RunStarted(s)
            /\ cs[1].description # cs[2].description
            /\ cs[3].prompt = cs[2].description

\* C3: a generation call that fails on cycle k ends the run Aborted (not
\* running, not reported completed) with exactly k-1 records.
C3_GenerationFailureAborts ==
    \A s \in Sessions :
        RunEnded(s) /\ GenerationFailedLast(s) =>
            /\ ~game_state[s].running
            /\ ~ReportedCompleted(s)
            /\ Len(game_state[s].cycles) = LastCall(s).cycle - 1

\* C4: an analysis call that fails on cycle k ends the run Aborted (not
\* running, not reported completed) with exactly k-1 records; the image of
\* cycle k is on disk and no record carries its path.
C4_AnalysisFailureAborts ==
    \A s \in Sessions :
        RunEnded(s) /\ AnalysisFailedLast(s) =>
            /\ ~game_state[s].running
            /\ ~ReportedCompleted(s)
            /\ Len(game_state[s].cycles) = LastCall(s).cycle - 1
            /\ image_files[image_path[s]] # NoImage
            /\ \A i \in 1..Len(game_state[s].cycles) :
                   game_state[s].cycles[i].image_path # image_path[s]

\* C5: the log of a run stopped by a failed call on cycle k holds the header
\* and exactly k-1 cycle blocks and no footer.
C5_NoFooterAfterFailure ==
    \A s \in Sessions :
        RunEnded(s) /\ ~AllCallsOk(s) =>
            /\ Len(Headers(RunLog(s))) = 1
            /\ Len(CycleBlocks(RunLog(s))) = LastCall(s).cycle - 1
            /\ Footers(RunLog(s)) = <<>>

\* C6: the log of a completed N-cycle run is one header, then the blocks of
\* cycles 1..N in order, then one footer, and nothing else.
C6_CompletedLogShape ==
    \A s \in Sessions :
        RunEnded(s) /\ AllCallsOk(s) /\ Len(calls[s]) = 2 * cycles[s] =>
            LET log == RunLog(s)
            IN  /\ Len(log) = cycles[s] + 2
                /\ log[1].kind = "header"
                /\ \A k \in 1..cycles[s] :
                       log[k + 1].kind = "cycle" /\ log[k + 1].cycle = k
                /\ log[Len(log)].kind = "footer"

\* C7: two runs never share a log file name.
C7_DistinctLogNames ==
    \A a, b \in Sessions :
        /\ a # b
        /\ game_state[a].log_path # NoPath
        /\ game_state[b].log_path # NoPath
        => game_state[a].log_path # game_state[b].log_path

\* C8: pressing start while get_client() returns None starts nothing: the
\* session's game_state, the files and the script's position stay as they
\* were and no capability call is made.
C8_NoClientNoRun ==
    [][\A s \in Sessions :
          /\ ~get_client_of(api_key'[s], API_KEY')
          /\ \E prompt \in Prompts \cup {NoText}, n \in 1..MaxCycles :
                 StartGame(s, prompt, n)
          => /\ game_state'[s] = game_state[s]
             /\ ~game_state'[s].running
             /\ log_files' = log_files
             /\ image_files' = image_files
             /\ pc'[s] = "idle"
             /\ calls'[s] = <<>>]_vars

C8_Witness ==
    \E s \in Sessions :
        /\ event[s] = "start"
        /\ ~get_client(s)
        /\ "Please enter your OpenAI API key" \in shown[s]

\* C9: no failure ends a script run with an uncaught exception and the
\* session still marked running.
C9_NoUncaughtException ==
    \A s \in Sessions :
        RunEnded(s) => ~Crashed(s) /\ ~game_state[s].running

\* C10: within a run no capability is called twice for the same cycle, and
\* a failed call is the run's last call.
C10_NoRetries ==
    \A s \in Sessions :
        LET c == calls[s]
        IN  /\ \A i, j \in 1..Len(c) :
                   i < j => ~(c[i].kind = c[j].kind /\ c[i].cycle = c[j].cycle)
            /\ \A i \in 1..Len(c) : ~c[i].ok => i = Len(c)

C10_Witness ==
    \E s \in Sessions :
        /\ RunEnded(s)
        /\ Len(calls[s]) >= 3
        /\ ~LastCall(s).ok

\* C11: the analysis of cycle k is called right after the generation of
\* cycle k has returned an image; the generation of cycle k+1 is called
\* only after the analysis of cycle k has returned and cycle k's record and
\* log block are written.  The calls of a run are made one after the other
\* by the one script run of the session.
C11_StrictSequencing ==
    \A s \in Sessions :
        LET c == calls[s]
            cs == game_state[s].cycles
        IN  /\ \A i \in 1..Len(c) :
                   /\ c[i].kind = "analyze" =>
                          /\ i > 1
                          /\ c[i-1] = [kind |-> "generate", cycle |-> c[i].cycle,
                                       ok |-> TRUE]
                   /\ c[i].kind = "generate" /\ c[i].cycle > 1 =>
                          /\ i > 1
                          /\ c[i-1] = [kind |-> "analyze",
                                       cycle |-> c[i].cycle - 1, ok |-> TRUE]
                          /\ Len(cs) >= c[i].cycle - 1
                          /\ Len(CycleBlocks(RunLog(s))) >= c[i].cycle - 1
                   /\ c[i].kind = "generate" /\ c[i].cycle = 1 => i = 1
            /\ pc[s] = "analyze" =>
                   /\ c # <<>>
                   /\ LastCall(s) = [kind |-> "generate", cycle |-> cycle[s],
                                     ok |-> TRUE]
            /\ pc[s] = "generate" /\ cycle[s] > 1 =>
                   /\ LastCall(s) = [kind |-> "analyze", cycle |-> cycle[s] - 1,
                                     ok |-> TRUE]
                   /\ Len(cs) = cycle[s] - 1
                   /\ Len(CycleBlocks(RunLog(s))) = cycle[s] - 1

C11_Witness ==
    \E s \in Sessions :
        /\ Len(calls[s]) = 4
        /\ LastCall(s) = [kind |-> "analyze", cycle |-> 2, ok |-> TRUE]
        /\ pc[s] = "store"

\* C12: a saved image is never overwritten: the file a cycle record points
\* to keeps holding the image of that record.
C12_ArtifactsNeverOverwritten ==
    \A s \in Sessions :
        \A i \in 1..Len(game_state[s].cycles) :
            LET rec == game_state[s].cycles[i]
            IN  image_files[rec.image_path] = rec.image

\* the session's last game is over: Completed or Aborted
Terminal(s) ==
    /\ pc[s] = "idle"
    /\ ~game_state[s].running
    /\ game_state[s].log_path # NoPath

\* C13 as stated: a session that has reached a terminal status stays in it.
C13_TerminalIsFinal ==
    [][\A s \in Sessions : Terminal(s) => Terminal(s)']_vars

\* C13 amended: running goes from False to True only by the start action
\* on a session whose script is idle, which replaces game_state by a new
\* one without records; while running stays True the records are only
\* extended; running goes from True to False only at the end of the run
\* loop or by 'Clear Game History'; and the records of a game that is over
\* are never changed except by being dropped.
C13_RunsDoNotResume ==
    [][\A s \in Sessions :
          LET gs == game_state[s]
              gt == game_state'[s]
          IN  /\ ~gs.running /\ gt.running =>
                     /\ pc[s] = "idle" /\ pc'[s] = "generate"
                     /\ gt.cycles = <<>>
              /\ gs.running /\ gt.running =>
                     \/ gt = gs
                     \/ /\ pc[s] = "store"
                        /\ Len(gt.cycles) = Len(gs.cycles) + 1
                        /\ SubSeq(gt.cycles, 1, Len(gs.cycles)) = gs.cycles
                        /\ gt.log_path = gs.log_path
              /\ gs.running /\ ~gt.running =>
                     \/ pc[s] = "finish" /\ gt = [gs EXCEPT !.running = FALSE]
                     \/ pc[s] = "idle" /\ gt = FreshGameState
              /\ ~gs.running /\ ~gt.running =>
                     gt = gs \/ gt = FreshGameState]_vars

\* a second game has been started in a session whose first game was over
C13_Witness ==
    \E s \in Sessions :
        /\ runs = 2
        /\ game_state[s].running
        /\ pc[s] = "analyze"

\* the script run of s is inside the run loop
InLoop(s) == pc[s] \in {"generate", "analyze", "store", "log", "sleep"}

\* C14 as stated: throughout a run the records carry the indices
\* 1..len(cycles), len(cycles) <= N, and len(cycles) is the loop's cycle
\* index minus one.
C14_LenIsIndexMinusOne ==
    \A s \in Sessions :
        LET cs == game_state[s].cycles
        IN  /\ \A i \in 1..Len(cs) : cs[i].cycle = i
            /\ RunStarted(s) => Len(cs) <= cycles[s]
            /\ InLoop(s) => Len(cs) = cycle[s] - 1

\* C14 amended: the records carry the indices 1..len(cycles) in order,
\* len(cycles) <= N, a record of index k exists only after generate(k) and
\* analyze(k) have both succeeded, and len(cycles) is the loop index minus
\* one from the start of an iteration until its record is appended, and
\* the loop index itself from then until the next iteration starts.
C14_RecordIndices ==
    \A s \in Sessions :
        LET cs == game_state[s].cycles
        IN  /\ \A i \in 1..Len(cs) : cs[i].cycle = i
            /\ RunStarted(s) =>
                   /\ Len(cs) <= cycles[s]
                   /\ \A i \in 1..Len(cs) :
                          /\ 2 * i <= Len(calls[s])
                          /\ calls[s][2 * i - 1] =
                                 [kind |-> "generate", cycle |-> i, ok |-> TRUE]
                          /\ calls[s][2 * i] =
                                 [kind |-> "analyze", cycle |-> i, ok |-> TRUE]
            /\ pc[s] \in {"generate", "analyze", "store"} =>
                   Len(cs) = cycle[s] - 1
            /\ pc[s] \in {"log", "sleep"} => Len(cs) = cycle[s]

C14_Witness ==
    \E s \in Sessions :
        /\ pc[s] = "sleep"
        /\ cycle[s] = 2
        /\ Len(game_state[s].cycles) = 2

\* the log block that carries a record's index, prompt, image path and
\* description
BlockOf(rec, n) ==
    CycleEntry(rec.cycle, n, rec.prompt, rec.image_path, rec.description)

\* C15: the cycle blocks of the run's log are, in order, the blocks of a
\* prefix of game_state['cycles'] that misses at most the last record; when
\* a generation call starts and when the run is over they are the blocks of
\* all records.
C15_LogMatchesSession ==
    \A s \in Sessions :
        RunStarted(s) =>
            LET blocks == CycleBlocks(RunLog(s))
                cs == game_state[s].cycles
            IN  /\ Len(blocks) <= Len(cs)
                /\ Len(cs) <= Len(blocks) + 1
                /\ \A k \in 1..Len(blocks) : blocks[k] = BlockOf(cs[k], cycles[s])
                /\ pc[s] \in {"generate", "analyze", "idle"} => Len(blocks) = Len(cs)

\* C16: a session whose running flag is True has a run loop that is still
\* going to reach line 279: the flag is never left True by a script run that
\* is over.
C16_RunningRunIsAlive ==
    \A s \in Sessions :
        game_state[s].running => InLoop(s) \/ pc[s] = "finish"

\* C18: a game begins only in a session whose running flag is False and
\* whose script is idle, and whenever the script run of a game ends, the
\* start button is enabled again.
C18_StartGuardedAndReenabled ==
    [][\A s \in Sessions :
          /\ pc[s] = "idle" /\ pc'[s] # "idle" =>
                 ~game_state[s].running /\ game_state'[s].running
          /\ pc[s] # "idle" /\ pc'[s] = "idle" =>
                 start_button_value(TRUE, game_state'[s].running)]_vars

\* C19: the image paths of the records of one run are pairwise distinct.
C19_RunImagePathsDistinct ==
    \A s \in Sessions :
        LET cs == game_state[s].cycles
        IN  \A i, j \in 1..Len(cs) :
                i # j => cs[i].image_path # cs[j].image_path

C19_Witness ==
    \E s \in Sessions :
        LET cs == game_state[s].cycles
        IN  /\ Len(cs) = 3
            /\ cs[1].image_path + 1 = cs[2].image_path
            /\ cs[2].image_path + 1 = cs[3].image_path

\* C17: the voices are tried in the order of preferred_voices; the first
\* voice whose request does not raise is the one used and no voice is tried
\* after it; when every voice raised, the exception reported is that of the
\* last voice, no audio file is written and the function returns None.
C17_VoiceFallback ==
    LET tried == narration.tried
    IN  /\ Len(tried) <= Len(preferred_voices)
        /\ \A i \in 1..Len(tried) : tried[i].voice = preferred_voices[i]
        /\ \A i \in 1..Len(tried) : tried[i].ok => i = Len(tried)
        /\ narration.response # NoResponse =>
               /\ tried # <<>>
               /\ tried[Len(tried)].ok
               /\ narration.response.voice = tried[Len(tried)].voice
        /\ narration.pc = "save" => narration.response # NoResponse
        /\ narration.pc = "done" /\ narrator_client(API_KEY)
             /\ narration.response = NoResponse =>
               /\ Len(tried) = Len(preferred_voices)
               /\ \A i \in 1..Len(tried) : ~tried[i].ok
               /\ narration.reported.voice = preferred_voices[Len(preferred_voices)]
               /\ narration.reported = narration.last_exc
               /\ narration.result = NoPath
               /\ audio_files = {}

\* every voice raised, the first and the last with different errors
C17_Witness ==
    /\ narration.pc = "done"
    /\ Len(narration.tried) = 3
    /\ narration.response = NoResponse
    /\ narration.reported = [voice |-> "alloy", error |-> "timeout"]
    /\ narration.result = NoPath

====
